---- MODULE Spec2Model ----
(***************************************************************************)
(* State-machine model of scripts/yokai-print-server/print_daemon.py: the  *)
(* print job dispatch (print_yokai under print_lock), the persisted retry  *)
(* queue (print_queue.json), the Supabase poll loop and realtime callback, *)
(* and the local /print endpoint.                                          *)
(***************************************************************************)
EXTENDS Integers, Sequences, FiniteSets, TLC

\* ---------------------------------------------------------------- constants
MAX_PRINT_RETRIES == 3
RECENT_CAP == 20

\* ------------------------------------------------------------------- bounds
MaxRequests == 2
MaxStarts == 2
MaxPrints == 2
MaxPasses == 4
MaxQueue == 2

\* Threads of the process: the main thread (module body, then main()), the
\* poll loop, the realtime callback, and the Flask request threads.
Handlers == {"h1", "h2"}
Online == {"poll", "push"}
Ctx == {"main"} \cup Online \cup Handlers

\* Rows of the remote "surveys" table, and the ids a /print body may carry.
Records == {"r1"}
Ids == Records

Free == "free"
None == [none |-> TRUE]

\* JSON bodies a client may POST to /print (None: no JSON body).
Bodies ==
    { None,
      [id |-> "r1"],
      [yokai_name |-> "Kappa"],
      [id |-> "r1", yokai_name |-> "Tengu"] }

VARIABLES
    proc,             \* "boot" | "up" | "killed" | "crashed"
    starts,           \* number of process starts so far
    mode,             \* "online" | "offline" | "both"  (command line of main)
    disk,             \* print_queue.json: [exists, text]
    print_lock,       \* holder of print_lock, or Free
    recent_jobs,      \* _recent_jobs
    paper,            \* the last receipt the device has completed
    handles,          \* threads whose printer handle is open
    store,            \* remote table: id -> [print_triggered, printed]
    events,           \* realtime UPDATE events in flight (row snapshots)
    subscribed,       \* realtime subscription registered
    pc,               \* position of each thread
    data,             \* the job dict each thread is handling
    success,          \* return value of the thread's last print_yokai
    lq,               \* the list loaded by _load_queue in the thread
    pending,          \* resp.data of the current poll tick
    response,         \* the last response handle_print has returned
    nreq,             \* /print requests received
    enq_done,         \* enqueue_job calls that have returned
    ack_failed,       \* an acknowledgement update has failed
    first_queue,      \* the list the first start found in the file
    remaining,        \* process_queue's list of jobs to keep
    replay_attempts   \* print_yokai calls made by process_queue: id -> count

life == << proc, starts, mode >>
device == << paper, handles >>
remote == << store, events, subscribed >>
hist == << nreq, enq_done, ack_failed, first_queue, replay_attempts >>

vars == << life, disk, print_lock, recent_jobs, device, remote, pc, data, success, lq,
           pending, response, remaining, hist >>

\* ------------------------------------------------------------ dict helpers
Get(d, k, dflt) == IF k \in DOMAIN d THEN d[k] ELSE dflt

record_id(d) == Get(d, "id", "local")

\* ------------------------------------------------------- the queue file
\* json.dumps of a list: an opening bracket, one object per entry, a closing
\* bracket; json.loads accepts exactly such a text and raises on any other.
LB == [t |-> "["]
RB == [t |-> "]"]
Obj(j) == [t |-> "obj", v |-> j]

dumps(queue) == <<LB>> \o [i \in 1..Len(queue) |-> Obj(queue[i])] \o <<RB>>

WellFormed(text) ==
    /\ Len(text) >= 2
    /\ text[1] = LB
    /\ text[Len(text)] = RB
    /\ \A i \in 2..(Len(text) - 1) : text[i].t = "obj"

loads(text) == [i \in 1..(Len(text) - 2) |-> text[i + 1].v]

_load_queue ==
    IF disk.exists /\ WellFormed(disk.text) THEN loads(disk.text) ELSE <<>>

NoFile == [exists |-> FALSE, text |-> <<>>]
Truncated == [exists |-> TRUE, text |-> <<>>]

\* A string holding a lone surrogate (json.loads accepts the escape "\ud800"):
\* json.dumps(ensure_ascii=False) passes it through and the UTF-8 encoder of
\* write_text raises on it.
LoneSurrogate == "\\ud800"

Encodes(job) == Get(job, "yokai_desc", "") # LoneSurrogate

\* write_text(text, encoding="utf-8") (line 131): the file is opened for
\* writing, which empties it, and the text is encoded and written; when the
\* encoder raises nothing is written, and _save_queue only logs (line 133).
Written(queue) ==
    IF \A i \in 1..Len(queue) : Encodes(queue[i])
    THEN [exists |-> TRUE, text |-> dumps(queue)]
    ELSE Truncated

\* ---------------------------------------------------------------- Init
Off == [t \in Ctx |-> "off"]

Volatile ==
    /\ print_lock = Free
    /\ recent_jobs = <<>>
    /\ paper = <<>>
    /\ handles = {}
    /\ events = {}
    /\ subscribed = FALSE
    /\ pc = Off
    /\ data = [t \in Ctx |-> None]
    /\ success = [t \in Ctx |-> FALSE]
    /\ lq = [t \in Ctx |-> <<>>]
    /\ pending = {}
    /\ response = None

Init ==
    /\ proc = "boot"
    /\ starts = 1
    /\ mode \in {"online", "offline", "both"}
    /\ disk = NoFile
    /\ first_queue = <<>>
    /\ store = [r \in Records |-> [print_triggered |-> FALSE, printed |-> FALSE]]
    /\ nreq = 0
    /\ enq_done = 0
    /\ ack_failed = FALSE
    /\ replay_attempts = [i \in Ids \cup {"local"} |-> 0]
    /\ remaining = <<>>
    /\ Volatile

\* ------------------------------------------------------ process life cycle
\* main() (lines 469-477): the Flask request threads serve in the offline and
\* both modes, the online thread runs in the online and both modes.
Serving ==
    [t \in Ctx |->
        IF t = "main" THEN "serving"
        ELSE IF t \in Handlers THEN (IF mode = "online" THEN "off" ELSE "idle")
        ELSE IF mode = "offline" THEN "off"
        ELSE IF t = "poll" THEN "online_start" ELSE "idle"]

\* The module body runs process_queue() (line 162) before print_yokai is
\* defined (line 192): with a non-empty list the call inside the loop raises
\* NameError, nothing catches it and the interpreter exits; with an empty
\* list process_queue returns at once and main() starts the selected modes.
Startup ==
    /\ proc = "boot"
    /\ IF _load_queue = <<>>
       THEN proc' = "up" /\ pc' = Serving
       ELSE proc' = "crashed" /\ pc' = Off
    /\ UNCHANGED << starts, mode, disk, print_lock, recent_jobs, device, remote, data,
                    success, lq, pending, response, remaining, hist >>

\* The process is terminated from outside (power loss, Ctrl-C, kill): every
\* thread stops where it is and only the queue file and the remote table stay.
Kill ==
    /\ proc \in {"boot", "up"}
    /\ proc' = "killed"
    /\ print_lock' = Free
    /\ recent_jobs' = <<>>
    /\ paper' = <<>>
    /\ handles' = {}
    /\ events' = {}
    /\ subscribed' = FALSE
    /\ pc' = Off
    /\ data' = [t \in Ctx |-> None]
    /\ success' = [t \in Ctx |-> FALSE]
    /\ lq' = [t \in Ctx |-> <<>>]
    /\ pending' = {}
    /\ response' = None
    /\ remaining' = <<>>
    /\ UNCHANGED << starts, mode, disk, store, hist >>

StartWithin(limit) ==
    /\ proc \in {"killed", "crashed"}
    /\ starts < limit
    /\ proc' = "boot"
    /\ starts' = starts + 1
    /\ UNCHANGED << mode, disk, print_lock, recent_jobs, device, remote, pc, data,
                    success, lq, pending, response, remaining, hist >>

Start == StartWithin(MaxStarts)

\* ------------------------------------------------------------ print_yokai
\* A with statement that would not wait for the holder.
LockFree_unguarded == TRUE

\* with print_lock: (line 205) blocks until the lock is free.
LockFree == print_lock = Free

PY_Acquire(t) ==
    /\ pc[t] = "py_lock"
    /\ LockFree
    /\ print_lock' = t
    /\ pc' = [pc EXCEPT ![t] = "py_crit"]
    /\ UNCHANGED << life, disk, recent_jobs, device, remote, data, success, lq,
                    pending, response, remaining, hist >>

\* Where print_yokai returns to: each thread has one call site.
ReturnSite(t) ==
    IF t \in Handlers THEN "hp_ret" ELSE IF t = "main" THEN "pq_ret" ELSE "oj_ret"

Summary(d) == [id |-> record_id(d), name |-> Get(d, "yokai_name", "nameless")]

\* A bookkeeping that would record a job twice.
Appended_twice(list, e) == Append(Append(list, e), e)

\* _recent_jobs.append(...), capped at the last 20 (lines 271-273).
Appended(list, e) ==
    LET l == Append(list, e) IN IF Len(l) > RECENT_CAP THEN Tail(l) ELSE l

\* decode_image / prepare_image (lines 168-181) raise on a payload that is
\* not the base64 text of an image.
Decodable(image_b64) == image_b64 = "png"

\* An image block that would send whatever payload it is given.
ImageOutcomes_unchecked(d) ==
    IF Get(d, "yokai_image_b64", "") # "" THEN {TRUE} ELSE {FALSE}

\* The image block (lines 231-241): entered for a non-empty payload; whatever
\* raises inside it (decoding, resizing, p.image) is logged and skipped.
ImageOutcomes(d) ==
    IF Get(d, "yokai_image_b64", "") # "" /\ Decodable(d.yokai_image_b64)
    THEN BOOLEAN ELSE {FALSE}

Part(kind, text) == [part |-> kind, text |-> text]

\* What a completed receipt carries (lines 211-264): header, the image if it
\* went through, the name, the description if there is one, footer and cut.
Receipt(d, img) ==
    <<Part("header", "BAKEBAKE_XR")>>
    \o (IF img THEN <<Part("image", d.yokai_image_b64)>> ELSE <<>>)
    \o <<Part("name", Get(d, "yokai_name", "nameless"))>>
    \o (IF Get(d, "yokai_desc", "") # ""
        THEN <<Part("desc", d.yokai_desc)>> ELSE <<>>)
    \o <<Part("footer", ""), Part("cut", "")>>

\* A with statement that would keep the lock when its body raised.
WithExit_leaky(t, ok) == IF ok THEN Free ELSE t

\* Leaving the with block (line 205) releases the lock, by return or by error.
WithExit(t, ok) == Free

\* The body under the lock (lines 206-285): either every device command and
\* close() go through (the receipt is out, the job is recorded, True), or one
\* of them raises (False); the with statement releases the lock either way.
\* The handle opened at line 209 is closed inside the step (line 267 or 283).
PY_Finish(t, ok, img) ==
    /\ pc[t] = "py_crit"
    /\ ok => Len(recent_jobs) < MaxPrints
    /\ img \in ImageOutcomes(data[t])
    /\ ok \/ ~img
    /\ recent_jobs' = IF ok THEN Appended(recent_jobs, Summary(data[t])) ELSE recent_jobs
    /\ paper' = IF ok THEN Receipt(data[t], img) ELSE paper
    /\ handles' = handles
    /\ success' = [success EXCEPT ![t] = ok]
    /\ print_lock' = WithExit(t, ok)
    /\ pc' = [pc EXCEPT ![t] = ReturnSite(t)]
    /\ UNCHANGED << life, disk, remote, data, lq, pending, response, remaining,
                    hist >>

\* ------------------------------------------------------------ remote table
Row(r) == [id |-> r, yokai_name |-> "Tengu",
           print_triggered |-> store[r].print_triggered,
           printed |-> store[r].printed]

\* An UPDATE of a row reaches the realtime callback, if one is registered, as
\* an event carrying the row as it is after the update.
Emit(st, r) ==
    IF subscribed
    THEN events \cup {[id |-> r, yokai_name |-> "Tengu",
                       print_triggered |-> st[r].print_triggered,
                       printed |-> st[r].printed]}
    ELSE events

\* An update that would leave the flag as it is.
MarkPrinted_noop(id) == store

\* .update({"printed": True}).eq("id", id): no row with that id, no change.
MarkPrinted(id) ==
    IF id \in Records THEN [store EXCEPT ![id].printed = TRUE] ELSE store

Marked(id) == IF id \in Records THEN Emit(MarkPrinted(id), id) ELSE events

\* ---------------------------------------------------- Mode B: POST /print
\* A JSON body that is not an object (a list, a string, a number).
NotADict == [list |-> TRUE]

Valid(body) == body # None /\ Get(body, "yokai_name", "") # ""

\* The responses of handle_print.
BadRequest == [status |-> 400]
InternalError == [status |-> 500, error |-> "Internal Server Error"]
\* A success response that would not carry the label.
Printed_unlabelled(name) == [status |-> 200, body |-> "printed", yokai_name |-> ""]

Printed(name) == [status |-> 200, body |-> "printed", yokai_name |-> name]
QueuedForRetry == [status |-> 500, error |-> "Print failed, job queued for retry"]

\* Lines 407-413: `not data` and an empty name are answered 400; data.get on
\* a body that is not an object raises AttributeError, which Flask turns
\* into its 500 response.
Rejected(body) == IF body = NotADict THEN InternalError ELSE BadRequest

\* A request thread takes a request; handle_print runs up to the call of
\* print_yokai, or to the 400 response (lines 407-416).
HP_Receive(h, body) ==
    /\ proc = "up"
    /\ pc[h] = "idle"
    /\ \A g \in Handlers : pc[g] = "idle" => h = "h1" \/ g # "h1"
    /\ nreq < MaxRequests
    /\ nreq' = nreq + 1
    /\ data' = [data EXCEPT ![h] = IF Valid(body) THEN body ELSE None]
    /\ pc' = [pc EXCEPT ![h] = IF Valid(body) THEN "py_lock" ELSE "idle"]
    /\ response' = IF Valid(body) THEN response ELSE Rejected(body)
    /\ UNCHANGED << life, disk, print_lock, recent_jobs, device, remote, success, lq,
                    pending, remaining, enq_done, ack_failed, first_queue,
                    replay_attempts >>

\* _get_supabase() (lines 46-54): a client exists when SUPABASE_URL/KEY are
\* configured.  The deployments modelled configure them exactly when an online
\* side is run: start_online_mode returns at once without them (lines 293-295).
HasClient == mode # "offline"

NeedsAck(d) == "id" \in DOMAIN d /\ HasClient

\* Success without an id or without a client: nothing to mark (lines 418-423).
HP_NoAck(h) ==
    /\ pc[h] = "hp_ret"
    /\ success[h]
    /\ ~NeedsAck(data[h])
    /\ pc' = [pc EXCEPT ![h] = "idle"]
    /\ data' = [data EXCEPT ![h] = None]
    /\ success' = [success EXCEPT ![h] = FALSE]
    /\ response' = Printed(data[h].yokai_name)
    /\ UNCHANGED << life, disk, print_lock, recent_jobs, device, remote, lq,
                    pending, remaining, hist >>

\* Success with an id: mark the row printed, best effort (lines 424-428).
HP_Ack(h, ok) ==
    /\ pc[h] = "hp_ret"
    /\ success[h]
    /\ NeedsAck(data[h])
    /\ store' = IF ok THEN MarkPrinted(data[h].id) ELSE store
    /\ events' = IF ok THEN Marked(data[h].id) ELSE events
    /\ ack_failed' = (ack_failed \/ ~ok)
    /\ pc' = [pc EXCEPT ![h] = "idle"]
    /\ data' = [data EXCEPT ![h] = None]
    /\ success' = [success EXCEPT ![h] = FALSE]
    /\ response' = Printed(data[h].yokai_name)
    /\ UNCHANGED << life, disk, print_lock, recent_jobs, device, subscribed, lq,
                    pending, remaining, nreq, enq_done, first_queue,
                    replay_attempts >>

\* ----------------------------------------------------------- enqueue_job
\* queue = _load_queue(); queue.append(data)   (lines 137-138)
EQ_Load(h) ==
    /\ pc[h] = "hp_ret"
    /\ ~success[h]
    /\ lq' = [lq EXCEPT ![h] = Append(_load_queue, data[h])]
    /\ pc' = [pc EXCEPT ![h] = "eq_open"]
    /\ UNCHANGED << life, disk, print_lock, recent_jobs, device, remote, data, success,
                    pending, response, remaining, hist >>

\* _save_queue: write_text opens the file for writing, which empties it ...
EQ_Open(h) ==
    /\ pc[h] = "eq_open"
    /\ disk' = Truncated
    /\ pc' = [pc EXCEPT ![h] = "eq_write"]
    /\ UNCHANGED << life, print_lock, recent_jobs, device, remote, data, success, lq,
                    pending, response, remaining, hist >>

\* ... and then writes the text; enqueue_job returns and handle_print answers
\* 500 "queued for retry" (line 433).
EQ_Write(h) ==
    /\ pc[h] = "eq_write"
    /\ disk' = Written(lq[h])
    /\ pc' = [pc EXCEPT ![h] = "idle"]
    /\ data' = [data EXCEPT ![h] = None]
    /\ lq' = [lq EXCEPT ![h] = <<>>]
    /\ enq_done' = enq_done + 1
    /\ response' = QueuedForRetry
    /\ UNCHANGED << life, print_lock, recent_jobs, device, remote, success,
                    pending, remaining, nreq, ack_failed, first_queue,
                    replay_attempts >>

\* --------------------------------------------------- Mode A: Supabase
\* The web application requests the print of a row.
AppTrigger(r) ==
    /\ ~store[r].print_triggered
    /\ store' = [store EXCEPT ![r].print_triggered = TRUE]
    /\ events' = Emit(store', r)
    /\ UNCHANGED << life, disk, print_lock, recent_jobs, device, subscribed, pc, data,
                    success, lq, pending, response, remaining, hist >>

\* A start_online_mode that would give up when the subscription raises.
OnlineStart_fatal(ok) ==
    /\ pc["poll"] = "online_start"
    /\ subscribed' = ok
    /\ pc' = [pc EXCEPT !["poll"] = IF ok THEN "poll_sleep" ELSE "off"]
    /\ UNCHANGED << life, disk, print_lock, recent_jobs, device, store, events,
                    data, success, lq, pending, response, remaining, hist >>

\* start_online_mode up to the loop: the subscription is tried and its
\* failure only logged (lines 300-313).
OnlineStart(ok) ==
    /\ pc["poll"] = "online_start"
    /\ subscribed' = ok
    /\ pc' = [pc EXCEPT !["poll"] = "poll_sleep"]
    /\ UNCHANGED << life, disk, print_lock, recent_jobs, device, store, events, data,
                    success, lq, pending, response, remaining, hist >>

\* A guard that would let every record through.
Eligible_any(record) == record # None

\* The guard of _handle_online_job (line 355), on the record it was handed.
Eligible(record) ==
    /\ record # None
    /\ Get(record, "print_triggered", FALSE)
    /\ ~Get(record, "printed", FALSE)

\* .eq("print_triggered", True).eq("printed", False)   (lines 324-330)
Listed == {r \in Records : store[r].print_triggered /\ ~store[r].printed}

\* A handler that would call print_yokai again after its job.
AfterJob_again(t, left) == "py_lock"

AfterJob(t, left) ==
    IF t = "push" THEN "idle" ELSE IF left = {} THEN "poll_sleep" ELSE "poll_each"

\* One tick's id query (lines 320-331); an exception is logged (line 350).
PollQuery(ok) ==
    /\ pc["poll"] = "poll_sleep"
    /\ pending' = IF ok THEN Listed ELSE {}
    /\ pc' = [pc EXCEPT !["poll"] = AfterJob("poll", pending')]
    /\ UNCHANGED << life, disk, print_lock, recent_jobs, device, remote, data, success,
                    lq, response, remaining, hist >>

\* _handle_online_job up to the call of print_yokai.
Submit(t, record, left) ==
    IF Eligible(record)
    THEN /\ data' = [data EXCEPT ![t] = record]
         /\ pc' = [pc EXCEPT ![t] = "py_lock"]
    ELSE /\ pc' = [pc EXCEPT ![t] = AfterJob(t, left)]
         /\ UNCHANGED data

\* The full fetch of one listed id (lines 335-343); an exception ends the tick.
PollFetch(r, ok) ==
    /\ pc["poll"] = "poll_each"
    /\ r \in pending
    /\ IF ok
       THEN /\ pending' = pending \ {r}
            /\ Submit("poll", Row(r), pending')
       ELSE /\ pending' = {}
            /\ pc' = [pc EXCEPT !["poll"] = "poll_sleep"]
            /\ UNCHANGED data
    /\ UNCHANGED << life, disk, print_lock, recent_jobs, device, remote, success, lq,
                    response, remaining, hist >>

\* The realtime callback (line 308) is handed an event's record.
PushDeliver(e) ==
    /\ pc["push"] = "idle"
    /\ e \in events
    /\ events' = events \ {e}
    /\ Submit("push", e, {})
    /\ UNCHANGED << life, disk, print_lock, recent_jobs, device, store, subscribed,
                    success, lq, pending, response, remaining, hist >>

\* After a successful print the row is marked, best effort (lines 358-363).
OJ_Ack(t, ok) ==
    /\ pc[t] = "oj_ret"
    /\ success[t]
    /\ store' = IF ok THEN MarkPrinted(data[t].id) ELSE store
    /\ events' = IF ok THEN Marked(data[t].id) ELSE events
    /\ ack_failed' = (ack_failed \/ ~ok)
    /\ pc' = [pc EXCEPT ![t] = AfterJob(t, pending)]
    /\ data' = [data EXCEPT ![t] = None]
    /\ success' = [success EXCEPT ![t] = FALSE]
    /\ UNCHANGED << life, disk, print_lock, recent_jobs, device, subscribed, lq,
                    pending, response, remaining, nreq, enq_done, first_queue,
                    replay_attempts >>

\* After a failed print _handle_online_job just returns.
OJ_Failed(t) ==
    /\ pc[t] = "oj_ret"
    /\ ~success[t]
    /\ pc' = [pc EXCEPT ![t] = AfterJob(t, pending)]
    /\ data' = [data EXCEPT ![t] = None]
    /\ UNCHANGED << life, disk, print_lock, recent_jobs, device, remote, success, lq,
                    pending, response, remaining, hist >>

\* ------------------------------------------------------------------ Next
Threads == Online \cup Handlers

Next ==
    \/ Startup
    \/ Kill
    \/ Start
    \/ \E t \in Threads : PY_Acquire(t)
    \/ \E t \in Threads, ok, img \in BOOLEAN : PY_Finish(t, ok, img)
    \/ \E h \in Handlers, body \in Bodies : HP_Receive(h, body)
    \/ \E h \in Handlers : HP_NoAck(h)
    \/ \E h \in Handlers, ok \in BOOLEAN : HP_Ack(h, ok)
    \/ \E h \in Handlers : EQ_Load(h)
    \/ \E h \in Handlers : EQ_Open(h)
    \/ \E h \in Handlers : EQ_Write(h)
    \/ \E r \in Records : AppTrigger(r)
    \/ \E ok \in BOOLEAN : OnlineStart(ok)
    \/ \E ok \in BOOLEAN : PollQuery(ok)
    \/ \E r \in Records, ok \in BOOLEAN : PollFetch(r, ok)
    \/ \E e \in events : PushDeliver(e)
    \/ \E t \in Online, ok \in BOOLEAN : OJ_Ack(t, ok)
    \/ \E t \in Online : OJ_Failed(t)

Spec == Init /\ [][Next]_vars

\* ------------------------------------------------------- process_queue
\* process_queue as it runs once print_yokai is bound (a call made after the
\* module body has run to its end): lines 142-159, one job at a time.
SetKey(d, k, v) == [x \in DOMAIN d \cup {k} |-> IF x = k THEN v ELSE d[x]]

Called(job) == [replay_attempts EXCEPT ![record_id(job)] = @ + 1]

\* queue = _load_queue(); an empty list returns (lines 144-146), otherwise
\* the loop starts with print_yokai(queue[0]) (lines 148-150).
PQ_Load ==
    /\ proc = "boot"
    /\ pc["main"] = "off"
    /\ LET queue == _load_queue IN
       IF queue = <<>>
       THEN /\ proc' = "up"
            /\ pc' = Serving
            /\ UNCHANGED << data, lq, replay_attempts >>
       ELSE /\ proc' = proc
            /\ pc' = [pc EXCEPT !["main"] = "py_lock"]
            /\ data' = [data EXCEPT !["main"] = Head(queue)]
            /\ lq' = [lq EXCEPT !["main"] = Tail(queue)]
            /\ replay_attempts' = Called(Head(queue))
    /\ remaining' = <<>>
    /\ UNCHANGED << starts, mode, disk, print_lock, recent_jobs, device, remote,
                    success, pending, response, nreq, enq_done, ack_failed,
                    first_queue >>

\* A policy that would keep every failed job.
Kept_unbounded(job, ok) ==
    IF ~ok THEN <<SetKey(job, "_retries", Get(job, "_retries", 0) + 1)>> ELSE <<>>

\* The retry policy of a failed job (lines 151-158).
Kept(job, ok) ==
    LET retries == Get(job, "_retries", 0) IN
    IF ~ok /\ retries < MAX_PRINT_RETRIES
    THEN <<SetKey(job, "_retries", retries + 1)>>
    ELSE <<>>

\* After print_yokai returned: keep or drop the job, then go on with the
\* next job of the list or, after the last one, _save_queue(remaining).
PQ_After ==
    /\ pc["main"] = "pq_ret"
    /\ remaining' = remaining \o Kept(data["main"], success["main"])
    /\ success' = [success EXCEPT !["main"] = FALSE]
    /\ IF lq["main"] # <<>>
       THEN /\ pc' = [pc EXCEPT !["main"] = "py_lock"]
            /\ data' = [data EXCEPT !["main"] = Head(lq["main"])]
            /\ lq' = [lq EXCEPT !["main"] = Tail(lq["main"])]
            /\ replay_attempts' = Called(Head(lq["main"]))
       ELSE /\ pc' = [pc EXCEPT !["main"] = "pq_open"]
            /\ data' = [data EXCEPT !["main"] = None]
            /\ UNCHANGED << lq, replay_attempts >>
    /\ UNCHANGED << life, disk, print_lock, recent_jobs, device, remote, pending, response, nreq,
                    enq_done, ack_failed, first_queue >>

\* _save_queue(remaining) (line 159): the file is emptied, then written.
PQ_Open ==
    /\ pc["main"] = "pq_open"
    /\ disk' = Truncated
    /\ pc' = [pc EXCEPT !["main"] = "pq_write"]
    /\ UNCHANGED << life, print_lock, recent_jobs, device, remote, data, success, lq,
                    pending, response, remaining, hist >>

PQ_Write ==
    /\ pc["main"] = "pq_write"
    /\ disk' = Written(remaining)
    /\ proc' = "up"
    /\ pc' = Serving
    /\ remaining' = <<>>
    /\ UNCHANGED << starts, mode, print_lock, recent_jobs, device, remote, data,
                    success, lq, pending, response, hist >>

\* The process is stopped while it serves, and started again.
Stop == proc = "up" /\ Kill

Restart == StartWithin(MaxPasses)

\* The jobs handle_print hands to enqueue_job, and the lists of them a start
\* may find in the file.
Jobs == {b \in Bodies : Valid(b)}

RECURSIVE ListsUpTo(_)
ListsUpTo(n) ==
    IF n = 0 THEN {<<>>}
    ELSE LET shorter == ListsUpTo(n - 1) IN
         shorter \cup {Append(q, j) : q \in shorter, j \in Jobs}

ReplayInit ==
    /\ proc = "boot"
    /\ starts = 1
    /\ mode = "offline"
    /\ disk \in {Written(q) : q \in ListsUpTo(MaxQueue) \ {<<>>}}
    /\ first_queue = _load_queue
    /\ store = [r \in Records |-> [print_triggered |-> FALSE, printed |-> FALSE]]
    /\ nreq = 0
    /\ enq_done = 0
    /\ ack_failed = FALSE
    /\ replay_attempts = [i \in Ids \cup {"local"} |-> 0]
    /\ remaining = <<>>
    /\ Volatile

ReplayNext ==
    \/ PQ_Load
    \/ PY_Acquire("main")
    \/ \E ok, img \in BOOLEAN : PY_Finish("main", ok, img)
    \/ PQ_After
    \/ PQ_Open
    \/ PQ_Write
    \/ Stop
    \/ Restart

ReplaySpec == ReplayInit /\ [][ReplayNext]_vars

\* The replay with a process that can also be terminated in the middle of a
\* pass (power loss while process_queue is in its loop).
CrashNext ==
    \/ ReplayNext
    \/ Kill

CrashSpec == ReplayInit /\ [][CrashNext]_vars

\* ------------------------------------------------------- fair scheduling
\* One process life (no kill): every thread that can take a step eventually
\* takes one, as the interpreter schedules every runnable thread.  Requests
\* and print requests of the web application arrive or not.
ThreadStep(t) ==
    \/ PY_Acquire(t)
    \/ \E ok, img \in BOOLEAN : PY_Finish(t, ok, img)
    \/ t \in Handlers /\ HP_NoAck(t)
    \/ t \in Handlers /\ \E ok \in BOOLEAN : HP_Ack(t, ok)
    \/ t \in Handlers /\ EQ_Load(t)
    \/ t \in Handlers /\ EQ_Open(t)
    \/ t \in Handlers /\ EQ_Write(t)
    \/ t = "poll" /\ \E ok \in BOOLEAN : OnlineStart(ok)
    \/ t = "poll" /\ \E ok \in BOOLEAN : PollQuery(ok)
    \/ t = "poll" /\ \E r \in Records, ok \in BOOLEAN : PollFetch(r, ok)
    \/ t = "push" /\ \E e \in events : PushDeliver(e)
    \/ t \in Online /\ \E ok \in BOOLEAN : OJ_Ack(t, ok)
    \/ t \in Online /\ OJ_Failed(t)

LifeNext ==
    \/ Startup
    \/ \E h \in Handlers, body \in Bodies : HP_Receive(h, body)
    \/ \E r \in Records : AppTrigger(r)
    \/ \E t \in Threads : ThreadStep(t)

\* One process life, from its start on, under any scheduling.
LifeSpec == Init /\ [][LifeNext]_vars

FairSpec ==
    /\ Init
    /\ [][LifeNext]_vars
    /\ WF_vars(Startup)
    /\ \A t \in Threads : WF_vars(ThreadStep(t))

\* Between two acquisitions of the same thread lie a network call, an HTTP
\* response or the 10 s sleep of the poll loop, while a thread blocked on the
\* lock is woken by the release: a waiter that finds the lock free again and
\* again gets it.
LockFairSpec ==
    /\ FairSpec
    /\ \A t \in Threads : SF_vars(PY_Acquire(t))

\* ------------------------------------------------------- /print intake
\* The local endpoint alone (--offline), with the wider range of bodies a
\* client may send: a body that is not an object, a description that UTF-8
\* cannot encode, an image payload that decodes and one that does not.
IntakeBodies ==
    Bodies \cup
    { NotADict,
      [yokai_name |-> "Kappa", yokai_desc |-> LoneSurrogate],
      [yokai_name |-> "Kappa", yokai_image_b64 |-> "garbage"],
      [yokai_name |-> "Kappa", yokai_desc |-> "river", yokai_image_b64 |-> "png"] }

IntakeInit == Init /\ mode = "offline"

IntakeNext ==
    \/ Startup
    \/ Kill
    \/ Start
    \/ \E h \in Handlers, body \in IntakeBodies : HP_Receive(h, body)
    \/ \E h \in Handlers : PY_Acquire(h)
    \/ \E h \in Handlers, ok, img \in BOOLEAN : PY_Finish(h, ok, img)
    \/ \E h \in Handlers : HP_NoAck(h)
    \/ \E h \in Handlers : EQ_Load(h)
    \/ \E h \in Handlers : EQ_Open(h)
    \/ \E h \in Handlers : EQ_Write(h)

IntakeSpec == IntakeInit /\ [][IntakeNext]_vars

\* ------------------------------------------------- GET /health, /status
PRINTER_NAME == "EPSON TM-T90II Receipt"

\* health() (lines 389-391).
Health ==
    /\ proc = "up"
    /\ mode # "online"
    /\ response' = [status |-> 200, body |-> "ok", printer |-> PRINTER_NAME]
    /\ UNCHANGED << life, disk, print_lock, recent_jobs, device, remote, pc, data,
                    success, lq, pending, remaining, hist >>

\* _recent_jobs[-10:]
LastN(list, n) ==
    IF Len(list) <= n THEN list ELSE SubSeq(list, Len(list) - n + 1, Len(list))

\* A status that would count the recent jobs instead of the file's entries.
QueueLength_stale == Len(recent_jobs)

\* queue = _load_queue(); len(queue)   (lines 395, 401)
QueueLength == Len(_load_queue)

\* status() (lines 393-403).
Status ==
    /\ proc = "up"
    /\ mode # "online"
    /\ response' = [status |-> 200, body |-> "ok", printer |-> PRINTER_NAME,
                    queue_length |-> QueueLength,
                    recent_jobs |-> LastN(recent_jobs, 10)]
    /\ UNCHANGED << life, disk, print_lock, recent_jobs, device, remote, pc, data,
                    success, lq, pending, remaining, hist >>

\* The local endpoint with its two read-only routes.
StatusNext ==
    \/ IntakeNext
    \/ Health
    \/ Status

StatusSpec == IntakeInit /\ [][StatusNext]_vars

\* ------------------------------------------- print_yokai, step by step
\* The guarded body one statement group at a time, for the life of the
\* printer handle p.  p = open_printer() (line 209): open_printer returns a
\* handle on every path (lines 80-102).
PY_Open(t) ==
    /\ pc[t] = "py_crit"
    /\ handles' = handles \cup {t}
    /\ pc' = [pc EXCEPT ![t] = "py_send"]
    /\ UNCHANGED << life, disk, print_lock, recent_jobs, paper, remote, data,
                    success, lq, pending, response, remaining, hist >>

\* The device commands (lines 211-264): they all go through, or one raises
\* and control passes to the except clause with p still bound.
PY_Send(t, ok) ==
    /\ pc[t] = "py_send"
    /\ pc' = [pc EXCEPT ![t] = IF ok THEN "py_close" ELSE "py_except"]
    /\ UNCHANGED << life, disk, print_lock, recent_jobs, device, remote, data,
                    success, lq, pending, response, remaining, hist >>

\* A finally block that would not close the handle.
FinallyClose_skipped(t) == handles

\* finally: if p is not None: p.close(), its own error swallowed (279-285).
FinallyClose(t) == handles \ {t}

\* p.close(); p = None (lines 267-268) flushes the receipt; the job is
\* recorded and True returned (lines 270-274), the finally block finds p None
\* and the with statement releases the lock.  A close() that raises passes
\* control to the except clause with p still bound.
PY_Close(t, ok, img) ==
    /\ pc[t] = "py_close"
    /\ ok => Len(recent_jobs) < MaxPrints
    /\ img \in ImageOutcomes(data[t])
    /\ ok \/ ~img
    /\ IF ok
       THEN /\ handles' = handles \ {t}
            /\ paper' = Receipt(data[t], img)
            /\ recent_jobs' = Appended(recent_jobs, Summary(data[t]))
            /\ success' = [success EXCEPT ![t] = TRUE]
            /\ print_lock' = WithExit(t, TRUE)
            /\ pc' = [pc EXCEPT ![t] = ReturnSite(t)]
       ELSE /\ pc' = [pc EXCEPT ![t] = "py_except"]
            /\ UNCHANGED << handles, paper, recent_jobs, success, print_lock >>
    /\ UNCHANGED << life, disk, remote, data, lq, pending, response, remaining,
                    hist >>

\* except Exception: return False (lines 276-278); the finally block closes
\* the handle still bound to p and the with statement releases the lock.
PY_Except(t) ==
    /\ pc[t] = "py_except"
    /\ handles' = FinallyClose(t)
    /\ success' = [success EXCEPT ![t] = FALSE]
    /\ print_lock' = WithExit(t, FALSE)
    /\ pc' = [pc EXCEPT ![t] = ReturnSite(t)]
    /\ UNCHANGED << life, disk, recent_jobs, paper, remote, data, lq, pending,
                    response, remaining, hist >>

\* The local endpoint with print_yokai taken step by step.
DeviceNext ==
    \/ Startup
    \/ Kill
    \/ Start
    \/ \E h \in Handlers, body \in IntakeBodies : HP_Receive(h, body)
    \/ \E h \in Handlers : PY_Acquire(h)
    \/ \E h \in Handlers : PY_Open(h)
    \/ \E h \in Handlers, ok \in BOOLEAN : PY_Send(h, ok)
    \/ \E h \in Handlers, ok, img \in BOOLEAN : PY_Close(h, ok, img)
    \/ \E h \in Handlers : PY_Except(h)
    \/ \E h \in Handlers : HP_NoAck(h)
    \/ \E h \in Handlers : EQ_Load(h)
    \/ \E h \in Handlers : EQ_Open(h)
    \/ \E h \in Handlers : EQ_Write(h)

DeviceSpec == IntakeInit /\ [][DeviceNext]_vars

\* ================================================================ properties
InCritical == {t \in Ctx : pc[t] = "py_crit"}

\* C1: at most one print_yokai invocation is inside the body guarded by
\* print_lock at any time, whichever of the poll loop, the realtime callback
\* and the /print request threads the calls come from; the thread inside is
\* the holder of the lock.
C1_MutualExclusion ==
    /\ Cardinality(InCritical) <= 1
    /\ \A t \in Ctx : pc[t] = "py_crit" <=> print_lock = t

\* The poll loop is inside the body while a request thread and the realtime
\* callback both wait for the lock.
C1_Contention ==
    /\ pc["poll"] = "py_crit"
    /\ pc["push"] = "py_lock"
    /\ \E h \in Handlers : pc[h] = "py_lock"

\* Successful renders of a record id recorded in this process life.
Renders(id) ==
    Cardinality({i \in 1..Len(recent_jobs) : recent_jobs[i].id = id})

C3_NoRenderOfPrinted ==
    [][\A t \in Online :
          (pc[t] # "py_lock" /\ pc'[t] = "py_lock")
              => ~store[data'[t].id].printed]_vars

NoDuplicateIds(queue) ==
    \A i, k \in 1..Len(queue) :
        ("id" \in DOMAIN queue[i] /\ "id" \in DOMAIN queue[k]
            /\ queue[i].id = queue[k].id) => i = k

Retries(entry) == Get(entry, "_retries", 0)

\* C4: the render attempts of a job that keeps failing are bounded by
\* MAX_PRINT_RETRIES: over all starts, process_queue passes a job found once
\* in the file to print_yokai at most MAX_PRINT_RETRIES times.
C4_AttemptsBounded ==
    (\A i, k \in 1..Len(first_queue) :
        record_id(first_queue[i]) = record_id(first_queue[k]) => i = k)
        => \A id \in DOMAIN replay_attempts :
              replay_attempts[id] <= MAX_PRINT_RETRIES

\* C5: the retry count of a persisted entry counts its failed renders from
\* the very first failure on: every entry of the file carries a count of at
\* least 1.
C5_CountFromFirstFailure ==
    \A i \in 1..Len(_load_queue) : Retries(_load_queue[i]) >= 1

\* C6: a start never ends in an unhandled error of the startup replay: the
\* process reaches readiness whatever list the file holds.
C6_StartupCompletes == proc # "crashed"

InQueue(j) == \E i \in 1..Len(_load_queue) : _load_queue[i] = j

Rendered(j) ==
    \E i \in 1..Len(recent_jobs) : recent_jobs[i] = Summary(j)

\* C7: a job that is in the persisted queue is eventually rendered and
\* removed from the queue by a later daemon cycle.
C7_QueuedJobDelivered ==
    \A j \in Jobs : InQueue(j) ~> (Rendered(j) /\ ~InQueue(j))

\* C8: no enqueue_job call overwrites the append of another: while the first
\* process life serves and no save is under way, the file holds an entry for
\* every enqueue_job call that has returned.
C8_NoLostAppend ==
    (proc = "up" /\ starts = 1
        /\ \A h \in Handlers : pc[h] # "eq_write")
        => Len(_load_queue) >= enq_done

\* C9: a reader of the queue file never finds a partially written file: an
\* existing file always holds a complete list.
C9_NeverTorn == disk.exists => WellFormed(disk.text)

\* C10: after a recovery pass the persisted queue holds no two entries with
\* the same job id.
C10_NoDuplicateIds == proc = "up" => NoDuplicateIds(_load_queue)

\* C11: what _save_queue wrote is what _load_queue reads back: when
\* enqueue_job's save returns, the file reads back as the list it was given,
\* appended job included.
C11_RoundTrip ==
    [][\A h \in Handlers :
          (pc[h] = "eq_write" /\ pc'[h] = "idle") => _load_queue' = lq[h]]_vars

\* C12: a /print request with no JSON body, or whose body has no yokai_name
\* or an empty one, is answered 400 and has no other effect: print_yokai is
\* not called, the queue file and the recent-jobs list stay as they are.
C12_InvalidRejected ==
    [][\A h \in Handlers, body \in IntakeBodies :
          ((body = None \/ Get(body, "yokai_name", "") = "")
              /\ HP_Receive(h, body))
          => /\ response'.status = 400
             /\ pc'[h] = "idle"
             /\ UNCHANGED << disk, recent_jobs, paper, print_lock >>]_vars

\* C13: a valid /print request whose render succeeds calls print_yokai once
\* (the handler goes from the successful call straight to its response and
\* the render is recorded once), answers status "printed" with the request's
\* yokai_name, and none of its steps touches the queue file.
C13_PrintedResponse ==
    [][\A h \in Handlers :
          /\ (pc[h] = "py_crit" /\ pc'[h] = "hp_ret" /\ success'[h])
                => /\ recent_jobs' = Append(recent_jobs, Summary(data[h]))
                   /\ disk' = disk
          /\ (pc[h] = "hp_ret" /\ success[h] /\ pc'[h] # "hp_ret" /\ proc' = "up")
                => /\ pc'[h] = "idle"
                   /\ response' = [status |-> 200, body |-> "printed",
                                   yokai_name |-> data[h].yokai_name]
                   /\ disk' = disk]_vars

\* A request carrying the id of a row has been rendered, answered and the
\* row marked, with no queue file written.
C13_PrintedAndMarked ==
    /\ response = [status |-> 200, body |-> "printed", yokai_name |-> "Tengu"]
    /\ Renders("r1") = 1
    /\ store["r1"].printed
    /\ disk = NoFile
    /\ \A h \in Handlers : pc[h] = "idle"

CountIn(queue, j) == Cardinality({i \in 1..Len(queue) : queue[i] = j})

\* C14: a valid /print request whose render fails is answered "queued for
\* retry" and, when the handler returns, the queue file holds the job once
\* more than the list the handler found; the handler does not render again.
C14_QueuedOnFailure ==
    [][\A h \in Handlers :
          /\ (pc[h] = "eq_write" /\ pc'[h] = "idle")
                => /\ response' = QueuedForRetry
                   /\ CountIn(_load_queue', data[h])
                         = CountIn(SubSeq(lq[h], 1, Len(lq[h]) - 1), data[h]) + 1
          /\ (pc[h] \in {"hp_ret", "eq_open", "eq_write"})
                => pc'[h] # "py_lock"]_vars

Undecodable(d) ==
    Get(d, "yokai_image_b64", "") # "" /\ d.yokai_image_b64 # "png"

\* C15: when the image payload of a job cannot be decoded, a print_yokai that
\* returns True has sent no image but the name, the description if any, the
\* footer and the cut, has recorded the job in the recent jobs, and has left
\* the queue file alone.
C15_ImageSkipped ==
    [][\A t \in Threads :
          (pc[t] = "py_crit" /\ pc'[t] # "py_crit" /\ success'[t]
              /\ Undecodable(data[t]))
          => /\ \A i \in 1..Len(paper') : paper'[i].part # "image"
             /\ \E i \in 1..Len(paper') :
                   paper'[i] = [part |-> "name", text |-> data[t].yokai_name]
             /\ Get(data[t], "yokai_desc", "") # ""
                   => \E i \in 1..Len(paper') :
                         paper'[i] = [part |-> "desc", text |-> data[t].yokai_desc]
             /\ paper'[Len(paper') - 1].part = "footer"
             /\ paper'[Len(paper')].part = "cut"
             /\ recent_jobs' = Append(recent_jobs, Summary(data[t]))
             /\ disk' = disk]_vars

\* print_yokai has returned True for a job whose image payload is garbage.
C15_DegradedSuccess ==
    \E h \in Handlers :
        /\ pc[h] = "hp_ret"
        /\ success[h]
        /\ Undecodable(data[h])
        /\ Len(paper) = 4

\* C16: when the poll loop has rendered a record and its acknowledgement
\* update went through, the record's printed flag is true; the flag stays
\* true, no later id query lists a record whose flag is true, and the poll
\* loop renders only records its current tick has listed.
C16_AcknowledgedNotPolledAgain ==
    [][/\ (pc["poll"] = "oj_ret" /\ success["poll"] /\ pc'["poll"] # "oj_ret"
              /\ proc' = "up" /\ ~ack_failed')
            => store'[data["poll"].id].printed
       /\ \A r \in Records :
            /\ store[r].printed => store'[r].printed
            /\ (r \in pending' /\ r \notin pending) => ~store[r].printed
       /\ (pc["poll"] # "py_lock" /\ pc'["poll"] = "py_lock")
            => data'["poll"].id \in pending]_vars

\* The poll loop alone has rendered and acknowledged the record and is
\* between ticks with nothing listed.
C16_AckedByPoll ==
    /\ nreq = 0 /\ ~subscribed /\ ~ack_failed
    /\ store["r1"].printed
    /\ Renders("r1") = 1
    /\ pc["poll"] = "poll_sleep" /\ pending = {}

\* C17 as stated: once an acknowledgement update has failed, the record that
\* was rendered is not rendered again by a later poll tick: the poll loop
\* does not hand it to print_yokai.
C17_NotRenderedAgain ==
    [][\A r \in Records :
          (ack_failed /\ Renders(r) >= 1)
              => ~(pc["poll"] # "py_lock" /\ pc'["poll"] = "py_lock"
                     /\ data'["poll"].id = r)]_vars

\* C17 amended: a failed acknowledgement update is only logged: the step
\* leaves the queue file, the remote flags, the recent jobs and the device
\* output as they are and no thread calls print_yokai in it (the thread that
\* printed goes on to its next job or its response).  The record keeps
\* printed = FALSE and stays eligible for the next poll tick.
C17_FailedAckOnlyLogged ==
    [][(~ack_failed /\ ack_failed')
          => /\ UNCHANGED << disk, store, events, recent_jobs, paper >>
             /\ \A t \in Threads : pc'[t] = "py_lock" => pc[t] = "py_lock"]_vars

\* After a failed acknowledgement the poll loop alone has rendered the record
\* a second time.
C17_RenderedTwice ==
    /\ ack_failed /\ ~subscribed /\ nreq = 0
    /\ Renders("r1") = 2
    /\ disk = NoFile

\* C18: the renders of a remote record that keeps failing are bounded: as
\* long as no acknowledgement update fails, the poll loop and the realtime
\* callback eventually stop calling print_yokai (every record is by then
\* printed or discarded).
C18_RemoteRetriesBounded ==
    <>[](ack_failed \/ \A t \in Online : pc[t] # "py_crit")

InPollLoop ==
    pc["poll"] \in {"poll_sleep", "poll_each", "py_lock", "py_crit", "oj_ret"}

\* C20: when registering the subscription raises, start_online_mode still
\* enters the poll loop: whenever the online side has started without a
\* subscription the poll loop is running.
C20_PollingWithoutSubscription ==
    (proc = "up" /\ mode # "offline" /\ pc["poll"] # "online_start"
        /\ ~subscribed)
        => InPollLoop

\* Without a subscription the poll loop has discovered a record and rendered
\* it.
C20_RenderedByPolling ==
    /\ proc = "up" /\ mode # "offline" /\ ~subscribed
    /\ pc["poll"] = "oj_ret" /\ success["poll"]
    /\ data["poll"].id = "r1"
    /\ Renders("r1") = 1

\* C21: no remote or device error ends the process or one of its threads: a
\* step in which print_yokai fails, a poll query or a record fetch raises, an
\* acknowledgement update raises or the subscription raises leaves the
\* process up; the failed print_yokai returns False to its caller, the failed
\* poll tick goes back to sleep, the failed acknowledgement lets the thread
\* go on; and every thread the mode has started is still running after any
\* step of a process that is up.
C21_ErrorsRecovered ==
    [][/\ \A t \in Threads :
            (\E img \in BOOLEAN : PY_Finish(t, FALSE, img))
                => (proc' = "up" /\ ~success'[t] /\ pc'[t] = ReturnSite(t))
       /\ (PollQuery(FALSE) \/ \E r \in Records : PollFetch(r, FALSE))
            => (proc' = "up" /\ pc'["poll"] = "poll_sleep")
       /\ \A h \in Handlers :
            HP_Ack(h, FALSE) => (proc' = "up" /\ pc'[h] = "idle")
       /\ \A t \in Online :
            OJ_Ack(t, FALSE)
                => (proc' = "up" /\ pc'[t] \in {"idle", "poll_sleep", "poll_each"})
       /\ OnlineStart(FALSE) => proc' = "up"
       /\ proc' = "up"
            => \A t \in Threads : Serving[t] # "off" => pc'[t] # "off"]_vars

\* After a failed acknowledgement and a failed render that was queued, a
\* request thread has rendered a later job and the poll loop is rendering.
C21_LaterJobsServed ==
    /\ proc = "up" /\ ack_failed /\ enq_done = 1
    /\ \E h \in Handlers : pc[h] = "hp_ret" /\ success[h]
    /\ pc["poll"] = "py_crit"

C23_HandleClosed ==
    /\ \A t \in handles : print_lock = t
    /\ print_lock = Free => handles = {}

\* One call has returned True and a later one has left through the except
\* clause; the lock is free and no handle is open.
C23_ClosedOnBothPaths ==
    /\ print_lock = Free /\ handles = {}
    /\ recent_jobs # <<>>
    /\ \E h \in Handlers : pc[h] = "hp_ret" /\ ~success[h]

\* C24: a removal is persisted as soon as it happens: when the process is
\* terminated in the middle of a process_queue pass that has already gone on
\* to its next entry, the file the restarted process will read holds no
\* entry that the pass has rendered successfully (the file started with no
\* two entries of the same job).
C24_RemovalPersisted ==
    [][(/\ proc = "boot" /\ proc' = "killed"
        /\ pc["main"] \in {"py_lock", "py_crit"}
        /\ \A i, k \in 1..Len(first_queue) :
              record_id(first_queue[i]) = record_id(first_queue[k]) => i = k)
          => \A j \in Jobs :
                (Rendered(j) /\ j # data["main"]) => ~InQueue(j)']_vars

\* C25: /status and /health are read-only: serving either leaves the queue
\* file, the recent jobs, the remote flags, print_lock, the device and every
\* thread as they are, and /status answers with the number of entries the
\* queue file holds at that moment and with the last ten recent jobs.
C25_StatusReadOnly ==
    [][(Status \/ Health)
          => /\ UNCHANGED << disk, recent_jobs, store, events, subscribed,
                             print_lock, paper, handles, pc, data >>
             /\ Status => /\ response'.queue_length = Len(_load_queue)
                          /\ response'.recent_jobs = LastN(recent_jobs, 10)]_vars

\* /status has reported one queued job and one completed job.
C25_StatusReported ==
    /\ "queue_length" \in DOMAIN response
    /\ response.queue_length = 1 /\ Len(_load_queue) = 1
    /\ Len(response.recent_jobs) = 1

\* C26: the poll loop and the realtime callback call print_yokai only for a
\* record that is eligible as delivered: at the step at which one of them
\* enters print_yokai, the record it was handed has print_triggered true and
\* printed false.
C26_OnlyEligibleRendered ==
    [][\A t \in Online :
          (pc[t] # "py_lock" /\ pc'[t] = "py_lock")
              => /\ data'[t].print_triggered
                 /\ ~data'[t].printed]_vars

\* The realtime callback has been handed the update that marked the record
\* printed and has let it pass: the record was rendered once only.
C26_PrintedEventSkipped ==
    /\ subscribed /\ ~ack_failed /\ nreq = 0
    /\ store["r1"].printed
    /\ events = {}
    /\ pc["push"] = "idle"
    /\ Renders("r1") = 1

\* Entries of the recent jobs that are the summary of job d.
Recorded(list, d) == Cardinality({i \in 1..Len(list) : list[i] = Summary(d)})

\* C27: each print_yokai call that returns True appends exactly one summary
\* of its job to the recent jobs, as the last entry, and a call that returns
\* False leaves the list as it is: a job that fails twice and succeeds on
\* its third attempt is in the list exactly once.
C27_RecordedOncePerSuccess ==
    [][\A t \in Ctx :
          (pc[t] = "py_crit" /\ pc'[t] = ReturnSite(t))
              => IF success'[t]
                 THEN /\ Len(recent_jobs') = Len(recent_jobs) + 1
                      /\ recent_jobs'[Len(recent_jobs')] = Summary(data[t])
                      /\ Recorded(recent_jobs', data[t])
                            = Recorded(recent_jobs, data[t]) + 1
                 ELSE recent_jobs' = recent_jobs]_vars

\* A queued job has been handed to print_yokai three times and the third
\* call has succeeded: the recent jobs hold it once.
C27_ThirdAttemptRecorded ==
    /\ Len(first_queue) = 1
    /\ replay_attempts["r1"] = 3
    /\ recent_jobs = <<Summary(first_queue[1])>>
    /\ Renders("r1") = 1

\* C28: a successful render removes the queue entries of the same job id:
\* when a request thread, the poll loop or the realtime callback is done with
\* a job that carries an id and that print_yokai rendered successfully, the
\* queue file holds no entry with that id.
C28_DeliveredRemoved ==
    [][\A t \in Threads :
          (/\ pc[t] \in {"hp_ret", "oj_ret"} /\ success[t]
           /\ pc'[t] # pc[t] /\ proc' = "up"
           /\ "id" \in DOMAIN data[t])
          => \A i \in 1..Len(_load_queue') :
                "id" \in DOMAIN _load_queue'[i]
                    => _load_queue'[i].id # data[t].id]_vars

\* C29: every entry process_queue writes back carries a retry count between
\* 1 and MAX_PRINT_RETRIES; a failed entry whose stored count is already
\* MAX_PRINT_RETRIES is dropped, not rewritten; and an entry that is kept is
\* the same job with a count one above its stored count, so the count of an
\* entry never goes down from one pass to the next.
C29_RetryCountRange ==
    [][/\ PQ_Write
            => \A i \in 1..Len(_load_queue') :
                  /\ Retries(_load_queue'[i]) >= 1
                  /\ Retries(_load_queue'[i]) <= MAX_PRINT_RETRIES
       /\ PQ_After
            => LET job == data["main"] IN
               /\ (~success["main"] /\ Retries(job) = MAX_PRINT_RETRIES)
                     => remaining' = remaining
               /\ remaining' # remaining
                     => /\ ~success["main"]
                        /\ remaining' = Append(remaining,
                              SetKey(job, "_retries", Retries(job) + 1))
                        /\ Retries(remaining'[Len(remaining')]) > Retries(job)]_vars

\* An entry has failed with a stored count of MAX_PRINT_RETRIES and the pass
\* has written the file without it.
C29_DroppedAtMaximum ==
    /\ proc = "up"
    /\ Len(first_queue) = 1
    /\ replay_attempts[record_id(first_queue[1])] = MAX_PRINT_RETRIES + 1
    /\ recent_jobs = <<>>
    /\ disk.exists /\ _load_queue = <<>>

\* The steps in which thread t calls the remote store or reads or writes the
\* queue file.
RemoteOrFileStep(t) ==
    \/ t = "poll" /\ \E ok \in BOOLEAN : PollQuery(ok)
    \/ t = "poll" /\ \E r \in Records, ok \in BOOLEAN : PollFetch(r, ok)
    \/ t \in Online /\ \E ok \in BOOLEAN : OJ_Ack(t, ok)
    \/ t \in Handlers /\ \E ok \in BOOLEAN : HP_Ack(t, ok)
    \/ t \in Handlers /\ (EQ_Load(t) \/ EQ_Open(t) \/ EQ_Write(t))

\* C30: a thread never holds print_lock while it calls the remote store
\* (poll query, record fetch, acknowledgement update) or writes the queue
\* file: such a step is taken by a thread that is not the holder and leaves
\* the lock to whoever has it, so another thread can be rendering meanwhile.
C30_NoLockDuringIO ==
    [][\A t \in Threads :
          RemoteOrFileStep(t) => (print_lock # t /\ print_lock' = print_lock)]_vars

\* While the poll loop is at its acknowledgement and one request thread is in
\* the middle of a queue save, the other request thread is rendering.
C30_RenderingDuringIO ==
    /\ pc["poll"] = "oj_ret" /\ success["poll"]
    /\ \E h, g \in Handlers :
          pc[h] = "eq_write" /\ pc[g] = "py_crit" /\ print_lock = g
====
